---- MODULE Spec2Model ----
(***************************************************************************)
(* Search job lifecycle and real-time update client of the shopping        *)
(* comparator front end: the App component (job state, log and result      *)
(* accumulator, the WebSocket effect) and the SearchForm component (prompt *)
(* validation, site selection, hand-off of the SearchRequest).             *)
(*                                                                         *)
(* One action is one task of the browser's event loop: a form event, the   *)
(* continuation of handleSearch after its await, one WebSocket callback    *)
(* task, or one flush of the effect of App.  React state is written by     *)
(* the setters in the order the handler calls them.                        *)
(***************************************************************************)
EXTENDS Integers, Sequences, FiniteSets, TLC

\* ------------------------------------------------------------ bounds
\* searches started and channel messages delivered in one behaviour of Spec
JobSearches == 2
JobBudget == 1
\* the same for SpecMsg
MsgSearches == 1
MsgBudget == 2
\* the same for SpecForm
FormSearches == 1
FormBudget == 1
\* the same for SpecWire
WireSearches == 1
WireBudget == 2
\* the longest result list of SpecFilter, of SpecSort and of SpecPaging
FilterLen == 2
SortLen == 4
PagingLen == 13

\* ------------------------------------------------------ values and inputs
\* useState<string | null>(null): the job identifier before any job
Null == "null"
\* data.job_id of a response body that has no job_id key
Undefined == "undefined"
\* identifiers the submission endpoint issues
JobIds == {"J1", "J2"}
\* no submission request in flight
NoRequest == [prompt |-> <<>>, sites |-> <<>>, no |-> 0]

\* site names the form toggles (two of AVAILABLE_SITES)
ToggleSites == {"myntra", "meesho"}
\* useState<string[]>(["myntra", "meesho"]) and the list handleSubmit re-selects
DefaultSites == <<"myntra", "meesho">>
\* values typed into the prompt textarea, as character sequences
PromptInputs == {<<>>, <<" ">>, <<"a">>, <<" ", "a", " ">>}

\* JavaScript truthiness of a job identifier
Truthy(id) == id \notin {Null, Undefined, ""}

\* String.prototype.trim on a character sequence
RECURSIVE TrimLeft(_)
TrimLeft(s) ==
    IF s # <<>> /\ Head(s) = " " THEN TrimLeft(Tail(s)) ELSE s

RECURSIVE TrimRight(_)
TrimRight(s) ==
    IF s # <<>> /\ s[Len(s)] = " " THEN TrimRight(SubSeq(s, 1, Len(s) - 1)) ELSE s

trim(s) == TrimRight(TrimLeft(s))

\* ------------------------------------------------------------- state
VARIABLES
    \* SearchForm
    prompt,           \* useState("")
    selectedSites,    \* useState(["myntra", "meesho"])
    toastShown,       \* the ToastProvider shows a toast
    formFilters,      \* useState<SearchFilters>({}) of the form
    \* App
    products,         \* useState<Product[]>([])
    productsBy,       \* provenance of products: the search whose code wrote it
    currentJobId,     \* useState<string | null>(null)
    jobStatus,        \* useState<string>("idle")
    logs,             \* useState<string[]>([]), each entry with its provenance
    isConnected,      \* useState<boolean>(false)
    isLoading,        \* useState<boolean>(false)
    sortField,        \* useState<keyof Product>("price")
    sortDirection,    \* useState<"asc" | "desc">("asc")
    \* ResultsTable
    filters,          \* useState<SearchFilters>({}): a function on the keys present
    currentPage,      \* useState(1)
    itemsPerPage,     \* useState(getItemsPerPage())
    \* the effect of App and the WebSocket objects it made
    mounted,          \* App is mounted
    effectJobId,      \* currentJobId the last run of the effect closed over
    searchWebSocket,  \* window.searchWebSocket: 0 is null, else index in sockets
    sockets,          \* every WebSocket constructed so far
    \* the submission in flight and the input counters
    inflight,         \* the SearchRequest awaiting its response
    searchNo,         \* searches started
    received,         \* channel messages delivered
    lastEvent         \* event.data of the message event delivered last

formVars == <<prompt, selectedSites, toastShown, formFilters>>
appVars == <<products, productsBy, currentJobId, jobStatus, logs, isConnected, isLoading>>
wsVars == <<mounted, effectJobId, searchWebSocket, sockets>>
ioVars == <<inflight, searchNo, received, lastEvent>>
queryVars == <<sortField, sortDirection, filters, currentPage, itemsPerPage>>
vars == <<formVars, appVars, wsVars, ioVars, queryVars>>

\* useState<SearchFilters>({}): the object without keys
NoFilters == [k \in {} |-> 0]

\* window.innerWidth of a phone, a tablet and a desktop
PhoneWidth == 500
TabletWidth == 800
DesktopWidth == 1200
Widths == {PhoneWidth, TabletWidth, DesktopWidth}

\* getItemsPerPage
getItemsPerPage(width) ==
    IF width < 640 THEN 6
    ELSE IF width < 1024 THEN 8
    ELSE 12

\* no message event was delivered yet
NoEvent ==
    [parse |-> "none", status |-> "",
     results |-> [kind |-> "absent", items |-> <<>>],
     logs |-> [kind |-> "absent", items |-> <<>>]]

\* ----------------------------------------------------------- log entries
\* one entry of logs: the pieces of the template string and the search whose
\* code appended it (the wall-clock prefix of addLog is not modelled)
Entry(text, by) == [text |-> text, by |-> by]

\* addLog: setLogs((prev) => [...prev, `[${timestamp}] ${message}`])
addLog(l, text, by) == Append(l, Entry(text, by))

Init ==
    /\ prompt = <<>>
    /\ selectedSites = DefaultSites
    /\ toastShown = FALSE
    /\ formFilters = NoFilters
    /\ products = <<>>
    /\ productsBy = 0
    /\ currentJobId = Null
    /\ jobStatus = "idle"
    /\ logs = <<>>
    /\ isConnected = FALSE
    /\ isLoading = FALSE
    /\ mounted = TRUE
    /\ effectJobId = Null
    /\ searchWebSocket = 0
    /\ sockets = <<>>
    /\ inflight = NoRequest
    /\ searchNo = 0
    /\ received = 0
    /\ lastEvent = NoEvent
    /\ sortField = "price"
    /\ sortDirection = "asc"
    /\ filters = NoFilters
    /\ currentPage = 1
    /\ itemsPerPage = getItemsPerPage(DesktopWidth)

\* ------------------------------------------------------------ SearchForm
\* a form whose controls stay enabled while isLoading
FormEnabledWhileLoading == mounted /\ effectJobId = currentJobId

\* React runs the pending effect of App before it dispatches a form event,
\* and every control of the form is disabled while isLoading
FormEnabled == mounted /\ ~isLoading /\ effectJobId = currentJobId

\* onChange of the prompt textarea: setPrompt(e.target.value)
SetPrompt(p) ==
    /\ FormEnabled
    /\ prompt' = p
    /\ UNCHANGED <<selectedSites, toastShown, formFilters, appVars, wsVars, ioVars>>

\* prev.includes(siteName) ? prev.filter(...) : [...prev, siteName]
ToggleIn(prev, siteName) ==
    IF \E i \in 1..Len(prev) : prev[i] = siteName
    THEN SelectSeq(prev, LAMBDA site : site # siteName)
    ELSE Append(prev, siteName)

handleSiteToggle(siteName) ==
    /\ FormEnabled
    /\ selectedSites' = ToggleIn(selectedSites, siteName)
    /\ UNCHANGED <<prompt, toastShown, formFilters, appVars, wsVars, ioVars>>

resetForm ==
    /\ FormEnabled
    /\ prompt' = <<>>
    /\ selectedSites' = <<"myntra">>
    /\ formFilters' = NoFilters
    /\ UNCHANGED <<toastShown, appVars, wsVars, ioVars>>

\* the timer pushToast sets removes the toast
ToastExpire ==
    /\ toastShown
    /\ toastShown' = FALSE
    /\ UNCHANGED <<prompt, selectedSites, formFilters, appVars, wsVars, ioVars>>

\* a check of the prompt that does not trim it
PromptRejectedUntrimmed(p) == p = <<>>

\* handleSubmit returns early when !prompt.trim()
PromptRejected(p) == trim(p) = <<>>

\* the sites of the request: the selectedSites of this render, also when
\* setSelectedSites(["myntra", "meesho"]) was just called
RequestSites(sel) == sel

\* const request = { prompt: prompt.trim(), sites: selectedSites }
BuildRequest(p, sel, no) == [prompt |-> trim(p), sites |-> RequestSites(sel), no |-> no]

\* a start of handleSearch that leaves the previous products in place
handleSearchStartKeepsProducts(request) ==
    /\ isLoading' = TRUE
    /\ logs' = addLog(<<>>, <<"Starting search...">>, request.no)
    /\ jobStatus' = "pending"
    /\ inflight' = request
    /\ searchNo' = request.no
    /\ UNCHANGED <<products, productsBy, currentJobId, isConnected, received, lastEvent>>

\* the synchronous part of handleSearch, up to the await of fetch
handleSearchStart(request) ==
    /\ isLoading' = TRUE
    /\ products' = <<>>
    /\ productsBy' = request.no
    /\ logs' = addLog(<<>>, <<"Starting search...">>, request.no)
    /\ jobStatus' = "pending"
    /\ inflight' = request
    /\ searchNo' = request.no
    /\ UNCHANGED <<currentJobId, isConnected, received, lastEvent>>

handleSubmit ==
    /\ FormEnabled
    /\ IF PromptRejected(prompt)
       THEN /\ toastShown' = TRUE
            /\ UNCHANGED <<prompt, selectedSites, formFilters, appVars, wsVars, ioVars>>
       ELSE /\ selectedSites' = IF Len(selectedSites) = 0 THEN DefaultSites ELSE selectedSites
            /\ handleSearchStart(BuildRequest(prompt, selectedSites, searchNo + 1))
            /\ UNCHANGED <<prompt, toastShown, formFilters, wsVars>>

\* ------------------------------------------------- handleSearch, resumed
\* outcomes of the fetch and of response.json()
Responses ==
    [kind : {"ok"}, job_id : JobIds \cup {Undefined}, cause : {<<>>}]
    \cup [kind : {"throws"}, job_id : {Undefined},
          cause : {<<"HTTP error! status: ", "500">>,
                   <<"Failed to fetch">>,
                   <<"Unexpected token < in JSON">>,
                   <<"Cannot read properties of null">>}]

\* a continuation without the finally block: isLoading is reset on success only
handleSearchResumeNoFinally(r) ==
    /\ inflight # NoRequest
    /\ inflight' = NoRequest
    /\ IF ~mounted
       THEN UNCHANGED appVars
       ELSE /\ IF r.kind = "ok"
               THEN /\ isLoading' = FALSE
                    /\ currentJobId' = r.job_id
                    /\ logs' = addLog(logs, <<"Search job created: ", r.job_id>>, inflight.no)
                    /\ UNCHANGED jobStatus
               ELSE /\ jobStatus' = "failed"
                    /\ logs' = addLog(logs, <<"Search failed: ">> \o r.cause, inflight.no)
                    /\ UNCHANGED <<currentJobId, isLoading>>
            /\ UNCHANGED <<products, productsBy, isConnected>>
    /\ UNCHANGED <<formVars, wsVars, searchNo, received, lastEvent>>

\* state setters of an unmounted component are dropped
handleSearchResume(r) ==
    /\ inflight # NoRequest
    /\ inflight' = NoRequest
    /\ IF ~mounted
       THEN UNCHANGED appVars
       ELSE /\ isLoading' = FALSE
            /\ IF r.kind = "ok"
               THEN /\ currentJobId' = r.job_id
                    /\ logs' = addLog(logs, <<"Search job created: ", r.job_id>>, inflight.no)
                    /\ UNCHANGED jobStatus
               ELSE /\ jobStatus' = "failed"
                    /\ logs' = addLog(logs, <<"Search failed: ">> \o r.cause, inflight.no)
                    /\ UNCHANGED currentJobId
            /\ UNCHANGED <<products, productsBy, isConnected>>
    /\ UNCHANGED <<formVars, wsVars, searchNo, received, lastEvent>>

\* ------------------------------------------------------- WebSocket objects
\* new WebSocket(wsUrl) for the job, made by the effect run of search `by`
NewSocket(job, by) ==
    [job |-> job, by |-> by, readyState |-> "CONNECTING",
     closeCalled |-> FALSE, mustFail |-> FALSE]

\* close() that acts only on a socket that has opened
CloseOpenOnly(ws) ==
    IF ws.readyState = "OPEN"
    THEN [ws EXCEPT !.readyState = "CLOSING", !.closeCalled = TRUE]
    ELSE ws

\* WebSocket.close(): nothing on a CLOSING or CLOSED socket; a CONNECTING
\* socket fails its connection (error, then close, are fired later); an OPEN
\* socket starts the closing handshake
Close(ws) ==
    CASE ws.readyState = "CONNECTING" ->
            [ws EXCEPT !.readyState = "CLOSING", !.closeCalled = TRUE, !.mustFail = TRUE]
      [] ws.readyState = "OPEN" ->
            [ws EXCEPT !.readyState = "CLOSING", !.closeCalled = TRUE]
      [] OTHER -> [ws EXCEPT !.closeCalled = TRUE]

\* a cleanup that drops the reference and closes nothing
CleanupNoClose(socks, ref) == socks

\* the cleanup of the effect: if (window.searchWebSocket) { close(); = null }
Cleanup(socks, ref) ==
    IF ref # 0 THEN [socks EXCEPT ![ref] = Close(@)] ELSE socks

\* an effect that also runs again when its socket has closed
useEffectReconnects ==
    /\ mounted
    /\ \/ effectJobId # currentJobId
       \/ searchWebSocket # 0 /\ sockets[searchWebSocket].readyState = "CLOSED"
    /\ effectJobId' = currentJobId
    /\ IF Truthy(currentJobId)
       THEN /\ sockets' = Append(Cleanup(sockets, searchWebSocket),
                                 NewSocket(currentJobId, searchNo))
            /\ searchWebSocket' = Len(sockets) + 1
       ELSE /\ sockets' = Cleanup(sockets, searchWebSocket)
            /\ searchWebSocket' = 0
    /\ UNCHANGED <<mounted, formVars, appVars, ioVars>>

\* the effect of App with deps [currentJobId]: the cleanup of the previous
\* run, then initWebSocket for the new identifier
useEffectRun ==
    /\ mounted
    /\ effectJobId # currentJobId
    /\ effectJobId' = currentJobId
    /\ IF Truthy(currentJobId)
       THEN /\ sockets' = Append(Cleanup(sockets, searchWebSocket),
                                 NewSocket(currentJobId, searchNo))
            /\ searchWebSocket' = Len(sockets) + 1
       ELSE /\ sockets' = Cleanup(sockets, searchWebSocket)
            /\ searchWebSocket' = 0
    /\ UNCHANGED <<mounted, formVars, appVars, ioVars>>

\* App unmounts: the cleanup of the last run of the effect
Unmount ==
    /\ mounted
    /\ mounted' = FALSE
    /\ sockets' = Cleanup(sockets, searchWebSocket)
    /\ searchWebSocket' = 0
    /\ UNCHANGED <<effectJobId, formVars, appVars, ioVars>>

\* --------------------------------------------------------- inbound messages
Absent == [kind |-> "absent", items |-> <<>>]
NotArray == [kind |-> "other", items |-> <<>>]
Array(items) == [kind |-> "array", items |-> items]

\* data.status: "" stands for an absent (or falsy) status
StatusInputs == {"", "pending", "running", "completed", "failed"}
\* JSON.parse does not check data against JobStatusResponse: a status string
\* outside the declared union
UndeclaredStatus == {"cancelled"}
ResultInputs == {Absent, NotArray, Array(<<>>), Array(<<"p1">>), Array(<<"p2", "p1">>)}
LogInputs == {Absent, NotArray, Array(<<"l1", "l2">>)}

\* event.data that JSON.parse rejects (or that parses to null)
Malformed == [parse |-> "throws", status |-> "", results |-> Absent, logs |-> Absent]

Messages ==
    [parse : {"object"}, status : StatusInputs \cup UndeclaredStatus,
     results : ResultInputs, logs : LogInputs]
    \cup {Malformed}

\* if (data.status) setJobStatus(data.status)
MsgStatus(status, m) ==
    IF m.status # "" THEN m.status ELSE status

\* a fold that takes a results value that is not a list for the empty list
MsgProductsCoerced(ps, m) ==
    IF m.results.kind = "absent" THEN ps ELSE m.results.items

\* a fold that merges the result list into the previous one
MsgProductsMerged(ps, m) ==
    IF m.results.kind = "array" THEN ps \o m.results.items ELSE ps

\* if (data.results && Array.isArray(data.results)) setProducts(data.results)
MsgProducts(ps, m) ==
    IF m.results.kind = "array" THEN m.results.items ELSE ps

\* addLog(`Found ${data.results.length} products`)
MsgResultLog(l, m, by) ==
    IF m.results.kind = "array"
    THEN addLog(l, <<"Found ", ToString(Len(m.results.items)), " products">>, by)
    ELSE l

\* a loop that appends the lines of a message last to first
RECURSIVE AddEachReversed(_, _, _)
AddEachReversed(l, entries, by) ==
    IF entries = <<>> THEN l
    ELSE addLog(AddEachReversed(l, Tail(entries), by), <<Head(entries)>>, by)

\* for (const entry of data.logs) addLog(entry)
RECURSIVE AddEach(_, _, _)
AddEach(l, entries, by) ==
    IF entries = <<>> THEN l
    ELSE AddEach(addLog(l, <<Head(entries)>>, by), Tail(entries), by)

MsgExplicitLogs(l, m, by) ==
    IF m.logs.kind = "array" THEN AddEach(l, m.logs.items, by) ELSE l

\* a status-specific log that also writes an entry for pending
MsgStatusLogAlways(l, m, by) ==
    CASE m.status = "running" -> addLog(l, <<"Search in progress...">>, by)
      [] m.status = "completed" -> addLog(l, <<"Search completed successfully">>, by)
      [] m.status = "failed" -> addLog(l, <<"Search failed">>, by)
      [] m.status = "pending" -> addLog(l, <<"Search pending">>, by)
      [] OTHER -> l

\* the status-specific log of onmessage
MsgStatusLog(l, m, by) ==
    CASE m.status = "running" -> addLog(l, <<"Search in progress...">>, by)
      [] m.status = "completed" -> addLog(l, <<"Search completed successfully">>, by)
      [] m.status = "failed" -> addLog(l, <<"Search failed">>, by)
      [] OTHER -> l

\* the log entries of one message, in the order onmessage appends them
MsgLogs(l, m, by) ==
    MsgStatusLog(MsgExplicitLogs(MsgResultLog(l, m, by), m, by), m, by)

\* ----------------------------------------------------- WebSocket callbacks
\* the connection is established: readyState OPEN, then ws.onopen
wsOpen(i) ==
    /\ sockets[i].readyState = "CONNECTING"
    /\ sockets' = [sockets EXCEPT ![i].readyState = "OPEN"]
    /\ IF mounted
       THEN /\ isConnected' = TRUE
            /\ logs' = addLog(logs, <<"Connected to search server">>, sockets[i].by)
       ELSE UNCHANGED <<isConnected, logs>>
    /\ UNCHANGED <<products, productsBy, currentJobId, jobStatus, isLoading>>
    /\ UNCHANGED <<mounted, effectJobId, searchWebSocket, formVars, ioVars>>

\* an onmessage whose catch block declares the job failed and closes
wsMessageGivesUp(i, m) ==
    /\ sockets[i].readyState = "OPEN"
    /\ received' = received + 1
    /\ lastEvent' = m
    /\ IF mounted /\ m.parse = "object"
       THEN /\ jobStatus' = MsgStatus(jobStatus, m)
            /\ products' = MsgProducts(products, m)
            /\ productsBy' = IF m.results.kind = "array" THEN sockets[i].by ELSE productsBy
            /\ logs' = MsgLogs(logs, m, sockets[i].by)
            /\ UNCHANGED sockets
       ELSE /\ jobStatus' = "failed"
            /\ sockets' = [sockets EXCEPT ![i] = Close(@)]
            /\ UNCHANGED <<products, productsBy, logs>>
    /\ UNCHANGED <<currentJobId, isConnected, isLoading>>
    /\ UNCHANGED <<mounted, effectJobId, searchWebSocket, formVars, inflight, searchNo>>

\* a message event is fired only on a socket whose readyState is OPEN
wsMessage(i, m) ==
    /\ sockets[i].readyState = "OPEN"
    /\ received' = received + 1
    /\ lastEvent' = m
    /\ IF mounted /\ m.parse = "object"
       THEN /\ jobStatus' = MsgStatus(jobStatus, m)
            /\ products' = MsgProducts(products, m)
            /\ productsBy' = IF m.results.kind = "array" THEN sockets[i].by ELSE productsBy
            /\ logs' = MsgLogs(logs, m, sockets[i].by)
       ELSE UNCHANGED <<jobStatus, products, productsBy, logs>>
    /\ UNCHANGED <<currentJobId, isConnected, isLoading>>
    /\ UNCHANGED <<wsVars, formVars, inflight, searchNo>>

\* ws.onerror, then ws.onclose
ErrorCloseLogs(l, failed, by) ==
    addLog(IF failed THEN addLog(l, <<"Connection error occurred">>, by) ELSE l,
           <<"Disconnected from search server">>, by)

\* callbacks of a closed connection that also declare the job failed
wsClosedFailsJob(i, failed) ==
    /\ sockets[i].readyState \in {"CONNECTING", "OPEN", "CLOSING"}
    /\ (sockets[i].readyState = "CONNECTING" \/ sockets[i].mustFail) => failed
    /\ sockets' = [sockets EXCEPT ![i].readyState = "CLOSED"]
    /\ IF mounted
       THEN /\ isConnected' = FALSE
            /\ jobStatus' = IF failed THEN "failed" ELSE jobStatus
            /\ logs' = ErrorCloseLogs(logs, failed, sockets[i].by)
       ELSE UNCHANGED <<isConnected, jobStatus, logs>>
    /\ UNCHANGED <<products, productsBy, currentJobId, isLoading>>
    /\ UNCHANGED <<mounted, effectJobId, searchWebSocket, formVars, ioVars>>

\* the connection is closed: readyState CLOSED, then the error event if the
\* connection failed (always so for a socket that never opened), then close
wsClosed(i, failed) ==
    /\ sockets[i].readyState \in {"CONNECTING", "OPEN", "CLOSING"}
    /\ (sockets[i].readyState = "CONNECTING" \/ sockets[i].mustFail) => failed
    /\ sockets' = [sockets EXCEPT ![i].readyState = "CLOSED"]
    /\ IF mounted
       THEN /\ isConnected' = FALSE
            /\ logs' = ErrorCloseLogs(logs, failed, sockets[i].by)
       ELSE UNCHANGED <<isConnected, logs>>
    /\ UNCHANGED <<products, productsBy, currentJobId, jobStatus, isLoading>>
    /\ UNCHANGED <<mounted, effectJobId, searchWebSocket, formVars, ioVars>>

\* ---------------------------------------------------------- ResultsTable
\* JavaScript values of a product field or a filter key
Undef == [kind |-> "undefined", n |-> 0, s |-> <<>>, items |-> <<>>]
NullV == [kind |-> "null", n |-> 0, s |-> <<>>, items |-> <<>>]
Num(n) == [kind |-> "number", n |-> n, s |-> <<>>, items |-> <<>>]
Str(s) == [kind |-> "string", n |-> 0, s |-> s, items |-> <<>>]
Arr(items) == [kind |-> "array", n |-> 0, s |-> <<>>, items |-> items]

\* v === null || v === undefined
Nullish(v) == v.kind \in {"null", "undefined"}

\* strings are sequences of characters
UpperCase ==
    <<"A", "B", "C", "D", "E", "F", "G", "H", "I", "J", "K", "L", "M",
      "N", "O", "P", "Q", "R", "S", "T", "U", "V", "W", "X", "Y", "Z">>
LowerCase ==
    <<"a", "b", "c", "d", "e", "f", "g", "h", "i", "j", "k", "l", "m",
      "n", "o", "p", "q", "r", "s", "t", "u", "v", "w", "x", "y", "z">>

\* the lower-case letter of each upper-case letter
ToLower == [c \in {UpperCase[i] : i \in 1..26} |->
               LowerCase[CHOOSE i \in 1..26 : UpperCase[i] = c]]

\* String.prototype.toLowerCase
Lower(c) == IF c \in DOMAIN ToLower THEN ToLower[c] ELSE c

toLowerCase(s) == [i \in 1..Len(s) |-> Lower(s[i])]

\* String.prototype.includes
includes(s, sub) ==
    \E i \in 0..(Len(s) - Len(sub)) : SubSeq(s, i + 1, i + Len(sub)) = sub

\* the collation order of the characters, case apart
Collation ==
    <<" ", ",", "0", "1", "2", "3", "4", "5", "6", "7", "8", "9",
      "a", "b", "c", "d", "e", "f", "g", "h", "i", "j", "k", "l", "m",
      "n", "o", "p", "q", "r", "s", "t", "u", "v", "w", "x", "y", "z">>

Rank(c) == CHOOSE i \in 1..Len(Collation) : Collation[i] = Lower(c)

\* the first level of String.prototype.localeCompare: letters, case apart
RECURSIVE ComparePrimary(_, _)
ComparePrimary(a, b) ==
    IF a = <<>> THEN (IF b = <<>> THEN 0 ELSE -1)
    ELSE IF b = <<>> THEN 1
    ELSE IF Rank(Head(a)) < Rank(Head(b)) THEN -1
    ELSE IF Rank(Head(a)) > Rank(Head(b)) THEN 1
    ELSE ComparePrimary(Tail(a), Tail(b))

\* the case level: at the first difference the lower-case letter is first
RECURSIVE CompareCase(_, _)
CompareCase(a, b) ==
    IF a = <<>> \/ b = <<>> THEN 0
    ELSE IF Head(a) = Head(b) THEN CompareCase(Tail(a), Tail(b))
    ELSE IF Head(a) = Lower(Head(a)) THEN -1
    ELSE 1

\* String.prototype.localeCompare
localeCompare(a, b) ==
    IF ComparePrimary(a, b) # 0 THEN ComparePrimary(a, b) ELSE CompareCase(a, b)

\* the digits of a decimal numeral
Digits == <<"0", "1", "2", "3", "4", "5", "6", "7", "8", "9">>
IsDigit(c) == \E i \in 1..Len(Digits) : Digits[i] = c
DigitValue(c) == (CHOOSE i \in 1..Len(Digits) : Digits[i] = c) - 1

\* Number(text) of a numeral without sign, point or exponent
RECURSIVE Number(_)
Number(text) ==
    IF text = <<>> THEN 0
    ELSE 10 * Number(SubSeq(text, 1, Len(text) - 1)) + DigitValue(text[Len(text)])

\* ToNumber of a value in a relational comparison: NaN is [nan |-> TRUE]
ToNumber(v) ==
    CASE v.kind = "number" -> [nan |-> FALSE, n |-> v.n]
      [] v.kind = "null" -> [nan |-> FALSE, n |-> 0]
      [] v.kind = "string" /\ \A i \in 1..Len(v.s) : IsDigit(v.s[i]) ->
            [nan |-> FALSE, n |-> Number(v.s)]
      [] OTHER -> [nan |-> TRUE, n |-> 0]

\* a >= b and a <= b of JavaScript with a number on the right
GreaterEq(v, bound) == ~ToNumber(v).nan /\ ToNumber(v).n >= bound
LessEq(v, bound) == ~ToNumber(v).nan /\ ToNumber(v).n <= bound

\* the site names of the Website select
myntra == <<"m", "y", "n", "t", "r", "a">>
meesho == <<"m", "e", "e", "s", "h", "o">>
nykaa == <<"n", "y", "k", "a", "a">>
fabindia == <<"f", "a", "b", "i", "n", "d", "i", "a">>

\* one Product of the result list
Product(title, price, category, site, rating) ==
    [title |-> title, price |-> price, category |-> category, site |-> site,
     rating |-> rating]

\* the products the streaming source reports, by the identifier the model
\* carries in products: fields absent or null, a price as a string, equal
\* ratings, titles that differ in case only
Catalog ==
    [p1 |-> Product(Str(<<"K", "u", "r", "t", "a">>), Num(50),
                    Str(<<"E", "t", "h", "n", "i", "c">>), Str(myntra), Num(4)),
     p2 |-> Product(Str(<<"S", "a", "r", "e", "e">>), Num(150),
                    Undef, Str(<<"M", "y", "n", "t", "r", "a">>), Undef),
     p3 |-> Product(Str(<<"E", "t", "h", "n", "o", " ", "t", "o", "p">>), Num(250),
                    Str(<<"T", "o", "p", "s">>), Str(meesho), Num(4)),
     p4 |-> Product(Str(<<"k", "u", "r", "t", "a">>), Num(100),
                    NullV, Str(nykaa), NullV),
     p5 |-> Product(Str(<<"D", "u", "p", "a", "t", "t", "a">>), Str(<<"1", "2", "0">>),
                    Str(<<"E", "t", "h", "n", "i", "c">>), Str(myntra), Num(5)),
     p6 |-> Product(Str(<<"J", "e", "a", "n", "s">>), Num(200),
                    Str(<<"D", "e", "n", "i", "m">>), Str(fabindia), Num(3)),
     p7 |-> Product(Str(<<"T", "o", "p">>), Num(0),
                    Str(<<"T", "o", "p", "s">>), Str(meesho), Num(2)),
     p8 |-> Product(Str(<<"S", "a", "r", "e", "e">>), Num(300),
                    Undef, Str(fabindia), Num(1)),
     p9 |-> Product(Str(<<"M", "a", "s", "k">>), Num(400),
                    Str(<<"T", "o", "p", "s">>), Str(nykaa), Num(5)),
     p10 |-> Product(Str(<<"B", "e", "l", "t">>), Num(500),
                     Undef, Str(myntra), Num(3)),
     p11 |-> Product(Str(<<"C", "a", "p">>), Num(600),
                     Undef, Str(meesho), Undef),
     p12 |-> Product(Str(<<"H", "a", "t">>), Num(700),
                     Str(<<"T", "o", "p", "s">>), Str(nykaa), Num(2)),
     p13 |-> Product(Str(<<"S", "o", "c", "k">>), Num(800),
                     Undef, Str(fabindia), Num(4)),
     p14 |-> Product(Str(<<"T", "i", "e">>), Num(900),
                     Undef, Str(myntra), Num(1))]

ProductIds == DOMAIN Catalog

\* filters.key of the filters object: undefined for a key that is not there
Get(f, key) == IF key \in DOMAIN f THEN f[key] ELSE Undef

\* { ...prev, key: value }
Spread(f, key, value) ==
    [k \in DOMAIN f \cup {key} |-> IF k = key THEN value ELSE f[k]]

\* truthiness of a filter value: undefined and "" are falsy, an array is truthy
TruthyValue(v) ==
    CASE v.kind = "undefined" -> FALSE
      [] v.kind = "null" -> FALSE
      [] v.kind = "string" -> v.s # <<>>
      [] v.kind = "number" -> v.n # 0
      [] OTHER -> TRUE

\* p.field?.toLowerCase().includes(text.toLowerCase())
FieldIncludes(v, text) ==
    v.kind = "string" /\ includes(toLowerCase(v.s), toLowerCase(text))

\* a price filter whose lower bound is exclusive
PassesMinStrict(id, f) ==
    Get(f, "min_price").kind # "undefined" =>
        /\ GreaterEq(Catalog[id].price, Get(f, "min_price").n)
        /\ ToNumber(Catalog[id].price).n # Get(f, "min_price").n

\* filters.min_price !== undefined: p.price >= filters.min_price
PassesMin(id, f) ==
    Get(f, "min_price").kind # "undefined" =>
        GreaterEq(Catalog[id].price, Get(f, "min_price").n)

\* filters.max_price !== undefined: p.price <= filters.max_price
PassesMax(id, f) ==
    Get(f, "max_price").kind # "undefined" =>
        LessEq(Catalog[id].price, Get(f, "max_price").n)

\* a category filter that looks at the category field only
PassesCategoryFieldOnly(id, f) ==
    TruthyValue(Get(f, "category")) =>
        FieldIncludes(Catalog[id].category, Get(f, "category").s)

\* filters.category: the category field or the title includes it
PassesCategory(id, f) ==
    TruthyValue(Get(f, "category")) =>
        \/ FieldIncludes(Catalog[id].category, Get(f, "category").s)
        \/ FieldIncludes(Catalog[id].title, Get(f, "category").s)

\* a site filter that wants every name of a list to match
PassesSiteEvery(id, f) ==
    LET siteFilter == Get(f, "site") IN
    TruthyValue(siteFilter) =>
        CASE siteFilter.kind = "string" -> FieldIncludes(Catalog[id].site, siteFilter.s)
          [] siteFilter.kind = "array" ->
                \A i \in 1..Len(siteFilter.items) :
                    FieldIncludes(Catalog[id].site, siteFilter.items[i])
          [] OTHER -> TRUE

\* filters.site: a string, or an array of which some name matches
PassesSite(id, f) ==
    LET siteFilter == Get(f, "site") IN
    TruthyValue(siteFilter) =>
        CASE siteFilter.kind = "string" -> FieldIncludes(Catalog[id].site, siteFilter.s)
          [] siteFilter.kind = "array" ->
                \E i \in 1..Len(siteFilter.items) :
                    FieldIncludes(Catalog[id].site, siteFilter.items[i])
          [] OTHER -> TRUE

\* a chain of filters in which the upper bound is skipped after a lower bound
filteredElseIf(ps, f) ==
    LET byMin == SelectSeq(ps, LAMBDA id : PassesMin(id, f))
        byMax == IF Get(f, "min_price").kind # "undefined" THEN byMin
                 ELSE SelectSeq(byMin, LAMBDA id : PassesMax(id, f))
        byCategory == SelectSeq(byMax, LAMBDA id : PassesCategory(id, f))
    IN  SelectSeq(byCategory, LAMBDA id : PassesSite(id, f))

\* the filters of filteredAndSortedProducts, one Array.prototype.filter each
filtered(ps, f) ==
    LET byMin == SelectSeq(ps, LAMBDA id : PassesMin(id, f))
        byMax == SelectSeq(byMin, LAMBDA id : PassesMax(id, f))
        byCategory == SelectSeq(byMax, LAMBDA id : PassesCategory(id, f))
    IN  SelectSeq(byCategory, LAMBDA id : PassesSite(id, f))

\* a comparator that does not look at the direction
comparatorIgnoresDirection(a, b, field, direction) ==
    LET aValue == Catalog[a][field]
        bValue == Catalog[b][field]
    IN  IF Nullish(aValue) THEN 1
        ELSE IF Nullish(bValue) THEN -1
        ELSE IF aValue.kind = "string" /\ bValue.kind = "string"
             THEN localeCompare(aValue.s, bValue.s)
        ELSE IF aValue.kind = "number" /\ bValue.kind = "number"
             THEN aValue.n - bValue.n
        ELSE 0

\* a comparator that negates the whole result for the descending direction
comparatorNegatesAll(a, b, field, direction) ==
    LET aValue == Catalog[a][field]
        bValue == Catalog[b][field]
        comparison ==
            IF Nullish(aValue) THEN 1
            ELSE IF Nullish(bValue) THEN -1
            ELSE IF aValue.kind = "string" /\ bValue.kind = "string"
                 THEN localeCompare(aValue.s, bValue.s)
            ELSE IF aValue.kind = "number" /\ bValue.kind = "number"
                 THEN aValue.n - bValue.n
            ELSE 0
    IN  IF direction = "asc" THEN comparison ELSE 0 - comparison

\* the function given to Array.prototype.sort
comparator(a, b, field, direction) ==
    LET aValue == Catalog[a][field]
        bValue == Catalog[b][field]
        comparison ==
            IF aValue.kind = "string" /\ bValue.kind = "string"
            THEN localeCompare(aValue.s, bValue.s)
            ELSE IF aValue.kind = "number" /\ bValue.kind = "number"
                 THEN aValue.n - bValue.n
            ELSE 0
    IN  IF Nullish(aValue) THEN 1
        ELSE IF Nullish(bValue) THEN -1
        ELSE IF direction = "asc" THEN comparison ELSE 0 - comparison

Reverse(s) == [i \in 1..Len(s) |-> s[Len(s) + 1 - i]]

\* Array.prototype.sort of V8 on an array shorter than 64 (one run of
\* TimSort): CountAndMakeRun finds the run at the start and reverses it when
\* it is strictly descending
RECURSIVE RunEnd(_, _, _, _, _)
RunEnd(arr, idx, isDescending, field, direction) ==
    IF idx = Len(arr) THEN idx
    ELSE LET order == comparator(arr[idx + 1], arr[idx], field, direction) IN
         IF (isDescending /\ order >= 0) \/ (~isDescending /\ order < 0) THEN idx
         ELSE RunEnd(arr, idx + 1, isDescending, field, direction)

\* the position BinaryInsertionSort finds for pivot in arr[left .. right - 1]
RECURSIVE BinarySlot(_, _, _, _, _, _)
BinarySlot(arr, pivot, left, right, field, direction) ==
    IF left >= right THEN left
    ELSE LET mid == left + ((right - left) \div 2) IN
         IF comparator(pivot, arr[mid], field, direction) < 0
         THEN BinarySlot(arr, pivot, left, mid, field, direction)
         ELSE BinarySlot(arr, pivot, mid + 1, right, field, direction)

\* arr with the element at index from moved to index to (to <= from)
MoveLeft(arr, from, to) ==
    SubSeq(arr, 1, to - 1) \o <<arr[from]>> \o SubSeq(arr, to, from - 1)
        \o SubSeq(arr, from + 1, Len(arr))

RECURSIVE BinaryInsertionSort(_, _, _, _)
BinaryInsertionSort(arr, start, field, direction) ==
    IF start > Len(arr) THEN arr
    ELSE BinaryInsertionSort(
             MoveLeft(arr, start, BinarySlot(arr, arr[start], 1, start, field, direction)),
             start + 1, field, direction)

TimSort(arr, field, direction) ==
    IF Len(arr) < 2 THEN arr
    ELSE LET isDescending == comparator(arr[2], arr[1], field, direction) < 0
             runLength == RunEnd(arr, 2, isDescending, field, direction)
             run == IF isDescending
                    THEN Reverse(SubSeq(arr, 1, runLength))
                             \o SubSeq(arr, runLength + 1, Len(arr))
                    ELSE arr
         IN  BinaryInsertionSort(run, runLength + 1, field, direction)

\* Array.prototype.sort of SpiderMonkey on an array shorter than 24: the
\* insertion sort that moves item left past each element that compares > 0
RECURSIVE LinearSlot(_, _, _, _, _)
LinearSlot(arr, item, j, field, direction) ==
    IF j >= 1 /\ comparator(arr[j], item, field, direction) > 0
    THEN LinearSlot(arr, item, j - 1, field, direction)
    ELSE j + 1

RECURSIVE InsertionSort(_, _, _, _)
InsertionSort(arr, i, field, direction) ==
    IF i > Len(arr) THEN arr
    ELSE InsertionSort(
             MoveLeft(arr, i, LinearSlot(arr, arr[i], i - 1, field, direction)),
             i + 1, field, direction)

\* the engines whose sort the page may run on
Engines == {"V8", "SpiderMonkey"}

\* [...filtered].sort(comparator)
sort(arr, field, direction, engine) ==
    IF engine = "V8" THEN TimSort(arr, field, direction)
    ELSE InsertionSort(arr, 2, field, direction)

\* the option values of the Sort by select
SortFields == {"", "price", "title", "rating"}

\* useMemo filteredAndSortedProducts
filteredAndSortedProducts(ps, f, field, direction, engine) ==
    IF field # "" THEN sort(filtered(ps, f), field, direction, engine)
    ELSE filtered(ps, f)

\* Array.prototype.slice(start, end) with 0 <= start <= end
slice(arr, start, end) ==
    SubSeq(arr, IF start < Len(arr) THEN start + 1 ELSE Len(arr) + 1,
                IF end < Len(arr) THEN end ELSE Len(arr))

\* Math.ceil(length / itemsPerPage)
totalPages(length, size) == (length + size - 1) \div size

\* a page that shows the last page for an index beyond it
pageClamped(items, size, page) ==
    IF page > totalPages(Len(items), size) /\ items # <<>>
    THEN slice(items, (totalPages(Len(items), size) - 1) * size, Len(items))
    ELSE slice(items, (page - 1) * size, (page - 1) * size + size)

\* a page that starts one item late
pageOffByOne(items, size, page) ==
    slice(items, (page - 1) * size + 1, (page - 1) * size + 1 + size)

\* useMemo paginatedProducts
paginatedProducts(items, size, page) ==
    slice(items, (page - 1) * size, (page - 1) * size + size)

\* App renders ResultsTable only while products is not empty: a step that
\* empties products unmounts the table, and the next mount starts from the
\* useState initial values; sortField and sortDirection are state of App
RenderTable ==
    /\ IF products' = <<>>
       THEN filters' = NoFilters /\ currentPage' = 1
       ELSE UNCHANGED <<filters, currentPage>>
    /\ UNCHANGED <<itemsPerPage, sortField, sortDirection>>

\* the table with its controls is on the page: App is mounted, products is
\* not empty, isLoading is false; React runs the pending effect of App before
\* it dispatches a click or a change (the Filters panel is taken as open)
TableShown ==
    mounted /\ ~isLoading /\ products # <<>> /\ effectJobId = currentJobId

\* filteredAndSortedProducts.length: the sort keeps the length
filteredLength == Len(filtered(products, filters))

\* setFilters(f) without the effect that resets the page
setFiltersKeepsPage(f) ==
    /\ TableShown
    /\ filters' = f
    /\ UNCHANGED <<currentPage, itemsPerPage, sortField, sortDirection>>
    /\ UNCHANGED <<formVars, appVars, wsVars, ioVars>>

\* setFilters(f), then the effect with deps [filters]: setCurrentPage(1)
setFilters(f) ==
    /\ TableShown
    /\ filters' = f
    /\ currentPage' = 1
    /\ UNCHANGED <<itemsPerPage, sortField, sortDirection>>
    /\ UNCHANGED <<formVars, appVars, wsVars, ioVars>>

\* onChange of the Min Price and Max Price inputs
PriceChange(key, text) ==
    setFilters(Spread(filters, key, IF text # <<>> THEN Num(Number(text)) ELSE Undef))

\* onChange of the Category input
CategoryChange(text) ==
    setFilters(Spread(filters, "category", IF text # <<>> THEN Str(text) ELSE Undef))

\* onChange of the Website select
SiteChange(option) ==
    setFilters(Spread(filters, "site", IF option # <<>> THEN Str(option) ELSE Undef))

\* the X of the badge of an active filter
RemoveFilter(key) ==
    /\ DOMAIN filters # {}
    /\ TruthyValue(Get(filters, key))
    /\ setFilters(Spread(filters, key, Undef))

\* the Clear all button
clearFilters ==
    /\ DOMAIN filters # {}
    /\ setFilters(NoFilters)

\* the page number of link i (from 0) of the pagination
PageNumber(i, page, total) ==
    IF total <= 5 THEN i + 1
    ELSE IF page <= 3 THEN i + 1
    ELSE IF page >= total - 2 THEN total - 4 + i
    ELSE page - 2 + i

\* handlePageChange(page)
handlePageChange(page) ==
    /\ TableShown
    /\ totalPages(filteredLength, itemsPerPage) > 1
    /\ currentPage' = page
    /\ UNCHANGED <<filters, itemsPerPage, sortField, sortDirection>>
    /\ UNCHANGED <<formVars, appVars, wsVars, ioVars>>

PaginationPrevious == currentPage > 1 /\ handlePageChange(currentPage - 1)

PaginationNext ==
    /\ currentPage < totalPages(filteredLength, itemsPerPage)
    /\ handlePageChange(currentPage + 1)

PaginationLink ==
    LET total == totalPages(filteredLength, itemsPerPage) IN
    \E i \in 0..((IF total < 5 THEN total ELSE 5) - 1) :
        handlePageChange(PageNumber(i, currentPage, total))

\* handleResize of the resize listener; an unmounted table takes the value
\* at its next mount
Resize(width) ==
    /\ mounted
    /\ itemsPerPage' = getItemsPerPage(width)
    /\ UNCHANGED <<filters, currentPage, sortField, sortDirection>>
    /\ UNCHANGED <<formVars, appVars, wsVars, ioVars>>

\* a handleSort that keeps the direction when another field is chosen
handleSortKeepsDirection(field) ==
    /\ TableShown
    /\ IF sortField = field
       THEN /\ sortDirection' = (IF sortDirection = "asc" THEN "desc" ELSE "asc")
            /\ UNCHANGED sortField
       ELSE /\ sortField' = field
            /\ UNCHANGED sortDirection
    /\ UNCHANGED <<filters, currentPage, itemsPerPage>>
    /\ UNCHANGED <<formVars, appVars, wsVars, ioVars>>

\* a handleSort after which the memo sorts products itself, not a copy
handleSortInPlace(field) ==
    /\ TableShown
    /\ IF sortField = field
       THEN /\ sortDirection' = (IF sortDirection = "asc" THEN "desc" ELSE "asc")
            /\ UNCHANGED sortField
       ELSE /\ sortField' = field
            /\ sortDirection' = "asc"
    /\ products' = IF sortField' # ""
                   THEN sort(products, sortField', sortDirection', "V8")
                   ELSE products
    /\ UNCHANGED <<filters, currentPage, itemsPerPage>>
    /\ UNCHANGED <<productsBy, currentJobId, jobStatus, logs, isConnected, isLoading>>
    /\ UNCHANGED <<formVars, wsVars, ioVars>>

\* handleSort of App, which ResultsTable calls through onSort
handleSort(field) ==
    /\ TableShown
    /\ IF sortField = field
       THEN /\ sortDirection' = (IF sortDirection = "asc" THEN "desc" ELSE "asc")
            /\ UNCHANGED sortField
       ELSE /\ sortField' = field
            /\ sortDirection' = "asc"
    /\ UNCHANGED <<filters, currentPage, itemsPerPage>>
    /\ UNCHANGED <<formVars, appVars, wsVars, ioVars>>

\* onChange of the Sort by select: another option was chosen
SortChange(field) == field # sortField /\ handleSort(field)

\* the direction button, shown while a sort field is set
SortDirectionClick == sortField # "" /\ handleSort(sortField)

\* ------------------------------------------------- SearchForm filters
\* the sizes and the materials the selectors of the form offer
Sizes == {<<"S">>, <<"M">>, <<"L">>}
Materials == {<<"s", "i", "l", "k">>, <<"w", "o", "o", "l">>}

\* selectedSizes / selectedMaterials: the filter value as a list
selectedOf(value) ==
    IF value.kind = "array" THEN value.items
    ELSE IF TruthyValue(value) THEN <<value.s>>
    ELSE <<>>

\* a filter value that is a list for a single selected value too
EncodedList(list) ==
    IF Len(list) = 0 THEN Undef ELSE Arr(list)

\* length 0 ? undefined : length 1 ? the value : the list
Encoded(list) ==
    IF Len(list) = 0 THEN Undef
    ELSE IF Len(list) = 1 THEN Str(list[1])
    ELSE Arr(list)

\* the filter value after a toggle of item
ToggleValue(value, item) == Encoded(ToggleIn(selectedOf(value), item))

\* handleSizeToggle / handleMaterialToggle
handleFilterToggle(key, item) ==
    /\ FormEnabled
    /\ formFilters' = Spread(formFilters, key, ToggleValue(Get(formFilters, key), item))
    /\ UNCHANGED <<prompt, selectedSites, toastShown, appVars, wsVars, ioVars>>

handleSizeToggle(size) == handleFilterToggle("size", size)

handleMaterialToggle(material) == handleFilterToggle("material", material)

\* ------------------------------------------------------------ behaviours
\* A search may start while fewer than maxSearches have
MaySubmit(maxSearches) == PromptRejected(prompt) \/ searchNo < maxSearches

\* Every action of the client, over the inputs the environment chooses: the
\* prompts typed, the sites toggled, the outcomes of the submission, the
\* messages the streaming source sends, and how many searches and messages
\* one behaviour holds.
NextOver(prompts, sites, responses, messages, maxSearches, budget) ==
    \/ \E p \in prompts : SetPrompt(p) /\ RenderTable
    \/ \E s \in sites : handleSiteToggle(s) /\ RenderTable
    \/ resetForm /\ RenderTable
    \/ ToastExpire /\ RenderTable
    \/ MaySubmit(maxSearches) /\ handleSubmit /\ RenderTable
    \/ \E r \in responses : handleSearchResume(r) /\ RenderTable
    \/ useEffectRun /\ RenderTable
    \/ Unmount /\ RenderTable
    \/ \E i \in 1..Len(sockets) : wsOpen(i) /\ RenderTable
    \/ \E i \in 1..Len(sockets), m \in messages : received < budget /\ wsMessage(i, m) /\ RenderTable
    \/ \E i \in 1..Len(sockets), failed \in BOOLEAN : wsClosed(i, failed) /\ RenderTable

\* The job lifecycle: the user types a prompt and submits, and may leave;
\* the endpoint answers with an identifier or not at all; the source sends a
\* status message and a message with a status and a result list.
JobMessages ==
    {m \in Messages : /\ m.parse = "object"
                      /\ m.logs = Absent
                      /\ <<m.status, m.results>> \in
                            {<<"running", Absent>>, <<"completed", Array(<<"p1">>)>>}}

JobResponses ==
    {r \in Responses : \/ r.kind = "ok" /\ r.job_id \in JobIds
                       \/ r.kind = "throws" /\ r.cause = <<"Failed to fetch">>}

NextJob ==
    \/ \E p \in {<<"a">>} : SetPrompt(p) /\ RenderTable
    \/ MaySubmit(JobSearches) /\ handleSubmit /\ RenderTable
    \/ \E r \in JobResponses : handleSearchResume(r) /\ RenderTable
    \/ useEffectRun /\ RenderTable
    \/ Unmount /\ RenderTable
    \/ \E i \in 1..Len(sockets) : wsOpen(i) /\ RenderTable
    \/ \E i \in 1..Len(sockets), m \in JobMessages : received < JobBudget /\ wsMessage(i, m) /\ RenderTable
    \/ \E i \in 1..Len(sockets), failed \in BOOLEAN : wsClosed(i, failed) /\ RenderTable

Spec == Init /\ [][NextJob]_vars

\* What the scheduling of the browser guarantees: a pending effect of App is
\* run, and a connection that is being established or closed comes to an end
\* (the socket opens, or its close event is fired).  The user, the endpoint
\* and the streaming source owe nothing.
ChannelSettles(i) ==
    /\ i <= Len(sockets)
    /\ sockets[i].readyState \in {"CONNECTING", "CLOSING"}
    /\ \/ wsOpen(i)
       \/ \E failed \in BOOLEAN : wsClosed(i, failed)
    /\ RenderTable

Fairness ==
    /\ WF_vars(useEffectRun /\ RenderTable)
    /\ \A i \in 1..JobSearches : WF_vars(ChannelSettles(i))

SpecLive == Init /\ [][NextJob]_vars /\ Fairness

\* The folding of messages: one job, and the source sends every combination
\* of a status and a result list, some of them with explicit log lines, and
\* payloads that do not parse.
MsgMessages ==
    {m \in Messages :
        /\ m.status \in StatusInputs
        /\ m.results # NotArray
        /\ \/ m.logs = Absent
           \/ /\ m.logs.kind = "array"
              /\ m.status \in {"", "completed"}
              /\ m.results \in {Absent, Array(<<"p1">>)}}

MsgResponses == {r \in JobResponses : r.job_id \in {"J1", Undefined}}

NextMsg ==
    \/ \E p \in {<<"a">>} : SetPrompt(p) /\ RenderTable
    \/ MaySubmit(MsgSearches) /\ handleSubmit /\ RenderTable
    \/ \E r \in MsgResponses : handleSearchResume(r) /\ RenderTable
    \/ useEffectRun /\ RenderTable
    \/ \E i \in 1..Len(sockets) : wsOpen(i) /\ RenderTable
    \/ \E i \in 1..Len(sockets), m \in MsgMessages : received < MsgBudget /\ wsMessage(i, m) /\ RenderTable
    \/ \E i \in 1..Len(sockets), failed \in BOOLEAN : wsClosed(i, failed) /\ RenderTable

SpecMsg == Init /\ [][NextMsg]_vars

\* The form and the submission: every prompt, every site selection, every
\* outcome of the submission; the source sends one status message.
FormMessages == {m \in JobMessages : m.status = "running"}

NextForm ==
    NextOver(PromptInputs, ToggleSites, Responses, FormMessages, FormSearches, FormBudget)

SpecForm == Init /\ [][NextForm]_vars

\* The wire format: one job, and the source sends objects without any of the
\* keys the handler reads, results and logs that are not lists, and status
\* strings inside and outside the declared union.
WireMessages ==
    {m \in Messages :
        /\ m.parse = "object"
        /\ \/ /\ m.status = ""
              /\ m.results \in {Absent, NotArray}
              /\ m.logs \in {Absent, NotArray}
           \/ /\ m.status \in {"running"} \cup UndeclaredStatus
              /\ m.results \in {Absent, Array(<<"p1">>)}
              /\ m.logs = Absent}

NextWire ==
    \/ \E p \in {<<"a">>} : SetPrompt(p) /\ RenderTable
    \/ MaySubmit(WireSearches) /\ handleSubmit /\ RenderTable
    \/ \E r \in MsgResponses : handleSearchResume(r) /\ RenderTable
    \/ useEffectRun /\ RenderTable
    \/ \E i \in 1..Len(sockets) : wsOpen(i) /\ RenderTable
    \/ \E i \in 1..Len(sockets), m \in WireMessages : received < WireBudget /\ wsMessage(i, m) /\ RenderTable
    \/ \E i \in 1..Len(sockets), failed \in BOOLEAN : wsClosed(i, failed) /\ RenderTable

SpecWire == Init /\ [][NextWire]_vars

\* The selections of the form: every toggle of a size, a material and a
\* site, and the reset.
NextToggle ==
    \/ \E size \in Sizes : handleSizeToggle(size) /\ RenderTable
    \/ \E material \in Materials : handleMaterialToggle(material) /\ RenderTable
    \/ \E s \in ToggleSites : handleSiteToggle(s) /\ RenderTable
    \/ resetForm /\ RenderTable

SpecToggle == Init /\ [][NextToggle]_vars

\* The result lists without a repeated product, of at most n of the ids
Lists(ids, n) ==
    UNION {{l \in [1..k -> ids] : \A i, j \in 1..k : i # j => l[i] # l[j]} :
           k \in 1..n}

\* ResultsTable as App mounts it: the search for prompt "a" was answered
\* with J1, the channel of J1 opened and delivered the message
\* {status: "completed", results: list}, which made products non-empty
TableMounted(list) ==
    /\ prompt = <<"a">>
    /\ selectedSites = DefaultSites
    /\ toastShown = FALSE
    /\ formFilters = NoFilters
    /\ products = list
    /\ productsBy = 1
    /\ currentJobId = "J1"
    /\ jobStatus = "completed"
    /\ logs = MsgLogs(addLog(addLog(addLog(<<>>,
                  <<"Starting search...">>, 1),
                  <<"Search job created: ", "J1">>, 1),
                  <<"Connected to search server">>, 1),
                  [parse |-> "object", status |-> "completed",
                   results |-> Array(list), logs |-> Absent], 1)
    /\ isConnected = TRUE
    /\ isLoading = FALSE
    /\ mounted = TRUE
    /\ effectJobId = "J1"
    /\ searchWebSocket = 1
    /\ sockets = <<[NewSocket("J1", 1) EXCEPT !.readyState = "OPEN"]>>
    /\ inflight = NoRequest
    /\ searchNo = 1
    /\ received = 1
    /\ lastEvent = [parse |-> "object", status |-> "completed",
                    results |-> Array(list), logs |-> Absent]
    /\ sortField = "price"
    /\ sortDirection = "asc"
    /\ filters = NoFilters
    /\ currentPage = 1
    /\ itemsPerPage = getItemsPerPage(DesktopWidth)

\* Filtering: short lists of products of every kind, and every control of
\* the Filters panel.
FilterIds == {"p1", "p2", "p3", "p4", "p5", "p6", "p7"}
MinTexts == {<<>>, <<"0">>, <<"1", "0", "0">>}
MaxTexts == {<<>>, <<"0">>, <<"2", "0", "0">>}
CategoryTexts == {<<>>, <<"E", "T", "H">>, <<"s", "A", "R">>}
SiteOptions == {<<>>, myntra, nykaa}
FilterKeys == {"min_price", "max_price", "category", "site"}

NextFilter ==
    \/ \E text \in MinTexts : PriceChange("min_price", text)
    \/ \E text \in MaxTexts : PriceChange("max_price", text)
    \/ \E text \in CategoryTexts : CategoryChange(text)
    \/ \E option \in SiteOptions : SiteChange(option)
    \/ \E key \in FilterKeys : RemoveFilter(key)
    \/ clearFilters

InitFilter == \E list \in Lists(FilterIds, FilterLen) : TableMounted(list)

SpecFilter == InitFilter /\ [][NextFilter]_vars

\* Sorting: lists long enough for the insertion sorts to differ, and the
\* Sort by select with its direction button.
SortIds == {"p1", "p2", "p3", "p4", "p5"}

NextSort ==
    \/ \E field \in SortFields : SortChange(field)
    \/ SortDirectionClick

InitSort == \E list \in Lists(SortIds, SortLen) : TableMounted(list)

SpecSort == InitSort /\ [][NextSort]_vars

\* Paging: lists longer than a page, every width of the window, and the
\* controls that change the filters and the sort.
AllProducts ==
    <<"p1", "p2", "p3", "p4", "p5", "p6", "p7", "p8", "p9", "p10", "p11", "p12",
      "p13", "p14">>
PagingLists == {SubSeq(AllProducts, 1, n) : n \in 1..PagingLen}

NextPaging ==
    \/ \E text \in {<<>>, <<"1", "0", "0">>} : PriceChange("min_price", text)
    \/ \E text \in MaxTexts : PriceChange("max_price", text)
    \/ \E text \in {<<>>, <<"t">>} : CategoryChange(text)
    \/ \E option \in {<<>>, meesho} : SiteChange(option)
    \/ \E key \in FilterKeys : RemoveFilter(key)
    \/ clearFilters
    \/ \E field \in SortFields : SortChange(field)
    \/ SortDirectionClick
    \/ PaginationPrevious
    \/ PaginationNext
    \/ PaginationLink
    \/ \E width \in Widths : Resize(width)

InitPaging == \E list \in PagingLists : TableMounted(list)

SpecPaging == InitPaging /\ [][NextPaging]_vars

\* ================================================================ claims
\* a step that delivers one message event to onmessage
MessageStep == received' = received + 1

\* status b is a step back from status a on the path
\* pending -> running -> {completed, failed}
Regresses(a, b) ==
    \/ a \in {"completed", "failed"} /\ b # a
    \/ a = "running" /\ b = "pending"

\* C1: no inbound message moves the job status out of completed or failed,
\* or from running back to pending.
C1_StatusMonotonic ==
    [][MessageStep => ~Regresses(jobStatus, jobStatus')]_vars

\* indices of the sockets in the given ready states
SocketsIn(states) == {i \in 1..Len(sockets) : sockets[i].readyState \in states}

\* C2: at most one channel is open, and the only channel that is opening or
\* open is the one window.searchWebSocket holds, for the identifier the
\* effect last ran with.
C2_OneOpenChannel ==
    /\ Cardinality(SocketsIn({"OPEN"})) <= 1
    /\ \A i \in SocketsIn({"CONNECTING", "OPEN"}) :
          i = searchWebSocket /\ sockets[i].job = effectJobId

\* a second channel is open after the first was replaced
C2_Witness ==
    /\ Len(sockets) = 2
    /\ sockets[2].readyState = "OPEN"
    /\ sockets[1].job # sockets[2].job

\* C3: every channel but the newest has had close() invoked on it and is
\* closing or closed, whether it was open or still opening, and after the
\* consumer shut down so has the newest.
C3_CloseBeforeOpen ==
    \A i \in 1..Len(sockets) :
        (i < Len(sockets) \/ ~mounted) =>
            /\ sockets[i].closeCalled
            /\ sockets[i].readyState \in {"CLOSING", "CLOSED"}

\* the first channel was closed while it was still opening, and a second
\* one exists
C3_Witness ==
    /\ Len(sockets) = 2
    /\ sockets[1].closeCalled
    /\ sockets[1].mustFail

\* C4: the log sequence and the ResultSet hold only what the latest search
\* and its channel wrote.
C4_OnlyCurrentSearch ==
    /\ \A k \in 1..Len(logs) : logs[k].by = searchNo
    /\ productsBy = searchNo

\* a step in which handleSearch starts a new search
SearchStartStep == searchNo' = searchNo + 1

\* a run of the effect for a changed identifier
EffectStep == effectJobId' # effectJobId

\* C5: a new search, whatever the status before, leaves status pending, the
\* ResultSet empty and the log sequence reset to its first entry, in that
\* one step; and the run of the effect for the new identifier closes the
\* channel of the previous one.
C5_FreshPending ==
    [][/\ SearchStartStep =>
            /\ jobStatus' = "pending"
            /\ products' = <<>>
            /\ logs' = <<Entry(<<"Starting search...">>, searchNo')>>
       /\ (EffectStep /\ searchWebSocket # 0) =>
            /\ sockets'[searchWebSocket].closeCalled
            /\ sockets'[searchWebSocket].readyState \in {"CLOSING", "CLOSED"}]_vars

\* the second search was started after a message of the first job had set
\* its status, and the channel of the first job, which was open, is closing
C5_Witness ==
    /\ searchNo = 2
    /\ received = 1
    /\ jobStatus = "pending"
    /\ products = <<>>
    /\ Len(sockets) = 2
    /\ sockets[1].readyState = "CLOSING"
    /\ ~sockets[1].mustFail

\* a step in which handleSearch resumes with the response of the endpoint
ResumeStep == inflight # NoRequest /\ inflight' = NoRequest /\ mounted

\* the entry the step appended, if it appended exactly one
Appended == logs'[Len(logs')]

\* the step recorded a created job
CreatedStep ==
    /\ ResumeStep
    /\ Len(logs') = Len(logs) + 1
    /\ Appended.text[1] = "Search job created: "

\* C6: when the response of a successful submission is processed, the live
\* identifier is the one recorded in the log and the status is pending.
C6_SuccessIsPending ==
    [][CreatedStep => (currentJobId' = Appended.text[2] /\ jobStatus' = "pending")]_vars

\* C7: a response is either a success, with an identifier of the endpoint
\* recorded, or a failure, with status failed and one descriptive entry;
\* neither issues another request for the search.
C7_FailureIsFailed ==
    [][ResumeStep =>
        /\ searchNo' = searchNo
        /\ Len(logs') = Len(logs) + 1
        /\ SubSeq(logs', 1, Len(logs)) = logs
        /\ \/ /\ currentJobId' \in JobIds
              /\ Appended.text = <<"Search job created: ", currentJobId'>>
           \/ /\ jobStatus' = "failed"
              /\ Appended.text[1] = "Search failed: "
              /\ Len(Appended.text) > 1]_vars

\* the prompt is empty or holds only whitespace
Blank(p) == \A i \in 1..Len(p) : p[i] = " "

\* a step in which handleSubmit pushes its toast
ToastStep == ~toastShown /\ toastShown'

\* C8: with an empty or whitespace-only prompt no step issues a submission
\* request, and the step in which the form rejects the prompt leaves the
\* job identifier, status, log sequence and ResultSet as they were.
C8_BlankPromptNoRequest ==
    [][/\ Blank(prompt) => (searchNo' = searchNo /\ inflight' \in {inflight, NoRequest})
       /\ ToastStep =>
            /\ Blank(prompt)
            /\ UNCHANGED <<currentJobId, jobStatus, logs, products, inflight, searchNo>>]_vars

\* a whitespace-only prompt was rejected after a search had left a job and
\* a log behind
C8_Witness ==
    /\ toastShown
    /\ prompt = <<" ">>
    /\ searchNo = 1
    /\ inflight = NoRequest
    /\ currentJobId \in JobIds
    /\ logs # <<>>

\* C9: every request handed to handleSearch has a non-empty site list.
C9_SitesNonEmpty ==
    inflight # NoRequest => inflight.sites # <<>>

\* the entries the step appended to the log sequence
NewEntries == SubSeq(logs', Len(logs) + 1, Len(logs'))

\* the entry that records a result list of n products
FoundEntry(n) == <<"Found ", ToString(n), " products">>

\* a step that delivers a message carrying a result list
ResultStep ==
    /\ MessageStep
    /\ lastEvent'.parse = "object"
    /\ lastEvent'.results.kind = "array"

\* C10: after a message with a result list L the ResultSet is L, and the
\* step appended exactly one entry that records a count, the length of L.
C10_ResultsReplaced ==
    [][ResultStep =>
        /\ products' = lastEvent'.results.items
        /\ SubSeq(logs', 1, Len(logs)) = logs
        /\ Cardinality({k \in 1..Len(NewEntries) : NewEntries[k].text[1] = "Found "}) = 1
        /\ \E k \in 1..Len(NewEntries) :
              NewEntries[k].text = FoundEntry(Len(lastEvent'.results.items))]_vars

\* a list of one product replaced a list of two
C10_Witness ==
    /\ lastEvent.results = Array(<<"p1">>)
    /\ products = <<"p1">>
    /\ \E k \in 1..Len(logs) : logs[k].text = FoundEntry(2)
    /\ logs[Len(logs)].text = FoundEntry(1)

\* s is an initial part of t
IsPrefix(s, t) == Len(s) <= Len(t) /\ SubSeq(t, 1, Len(s)) = s

\* a step that delivers a message that parses to an object
ObjectStep == MessageStep /\ lastEvent'.parse = "object"

\* the number of entries a message's result list and explicit lines account for
ResultEntries(m) == IF m.results.kind = "array" THEN 1 ELSE 0
LineEntries(m) == IF m.logs.kind = "array" THEN Len(m.logs.items) ELSE 0

\* the texts of the entries the step appended, from position a on, n of them
NewTexts(a, n) == [k \in 1..n |-> NewEntries[a + k - 1].text[1]]

\* C11: but for the step that starts a search, every step keeps the log
\* sequence as a prefix of the next one, and the explicit lines of a message
\* are appended next to each other in the order of the message, after the
\* entry for its result list.
C11_LogAppendOnly ==
    [][/\ ~SearchStartStep => IsPrefix(logs, logs')
       /\ (ObjectStep /\ lastEvent'.logs.kind = "array") =>
            /\ Len(NewEntries) >= ResultEntries(lastEvent') + LineEntries(lastEvent')
            /\ NewTexts(ResultEntries(lastEvent') + 1, LineEntries(lastEvent'))
                  = lastEvent'.logs.items]_vars

\* two messages with explicit lines arrived one after the other
C11_Witness ==
    /\ received = 2
    /\ lastEvent.logs.kind = "array"
    /\ Len(logs) >= 4
    /\ [k \in 1..4 |-> logs[Len(logs) - 4 + k].text] = <<<<"l1">>, <<"l2">>, <<"l1">>, <<"l2">>>>

\* the entry onmessage synthesizes for a status
Synthesized(status) ==
    CASE status = "running" -> <<"Search in progress...">>
      [] status = "completed" -> <<"Search completed successfully">>
      [] status = "failed" -> <<"Search failed">>

\* C12: a message with status running, completed or failed leaves that
\* status and appends one synthesized entry, after the entries for its result
\* list and explicit lines; a message with status pending leaves pending and
\* appends no entry beyond those.
C12_OneSynthesizedEntry ==
    [][ObjectStep =>
        /\ lastEvent'.status \in {"running", "completed", "failed"} =>
            /\ jobStatus' = lastEvent'.status
            /\ Len(NewEntries) = ResultEntries(lastEvent') + LineEntries(lastEvent') + 1
            /\ NewEntries[Len(NewEntries)].text = Synthesized(lastEvent'.status)
        /\ lastEvent'.status = "pending" =>
            /\ jobStatus' = "pending"
            /\ Len(NewEntries) = ResultEntries(lastEvent') + LineEntries(lastEvent')]_vars

\* a message with a status, a result list and explicit lines was folded,
\* after a message that appended nothing
C12_Witness ==
    /\ received = 2
    /\ lastEvent.status = "completed"
    /\ lastEvent.results.kind = "array"
    /\ lastEvent.logs.kind = "array"
    /\ jobStatus = "completed"
    /\ Len(logs) = 7
    /\ logs[3].text = <<"Connected to search server">>
    /\ logs[7].text = <<"Search completed successfully">>

\* a step in which the connection of socket i is closed and its callbacks run
ClosedStep(i) == sockets[i].readyState # "CLOSED" /\ sockets'[i].readyState = "CLOSED"

\* C13: when a connection is closed, by an error or not, the connected flag
\* is false afterwards, the log sequence ends with the entry of onclose (a
\* connection that never opened also leaves the entry of onerror), and
\* status, ResultSet and identifier are as before; the status changes only
\* to the status of a message, to pending when a search starts, or to failed
\* when the submission fails.
C13_ChannelErrorKeepsStatus ==
    [][/\ \A i \in 1..Len(sockets) : (ClosedStep(i) /\ mounted) =>
            /\ isConnected' = FALSE
            /\ IsPrefix(logs, logs')
            /\ Len(NewEntries) >= 1
            /\ NewEntries[Len(NewEntries)].text = <<"Disconnected from search server">>
            /\ sockets[i].readyState = "CONNECTING" =>
                  NewEntries[1].text = <<"Connection error occurred">>
            /\ UNCHANGED <<jobStatus, products, currentJobId>>
       /\ jobStatus' # jobStatus =>
            \/ MessageStep /\ lastEvent'.status = jobStatus'
            \/ SearchStartStep /\ jobStatus' = "pending"
            \/ ResumeStep /\ jobStatus' = "failed"]_vars

\* the connection of a running job failed on its own: the flag is false,
\* the two entries are there and the status is still running
C13_Witness ==
    /\ mounted
    /\ jobStatus = "running"
    /\ ~isConnected
    /\ Len(sockets) = 1
    /\ sockets[1].readyState = "CLOSED"
    /\ ~sockets[1].closeCalled
    /\ Len(logs) >= 2
    /\ logs[Len(logs) - 1].text = <<"Connection error occurred">>
    /\ logs[Len(logs)].text = <<"Disconnected from search server">>

\* a step that delivers a payload that does not parse
MalformedStep == MessageStep /\ lastEvent'.parse = "throws"

\* C14: a payload that does not parse leaves status, ResultSet, identifier
\* and every channel as they were, so the channel it came on is still open;
\* and the well-formed message that comes after it is folded in full.
C14_MalformedDiscarded ==
    [][/\ MalformedStep =>
            /\ UNCHANGED <<jobStatus, products, currentJobId, sockets>>
            /\ SocketsIn({"OPEN"}) # {}
       /\ (ObjectStep /\ lastEvent.parse = "throws") =>
            /\ jobStatus' = IF lastEvent'.status # "" THEN lastEvent'.status ELSE jobStatus
            /\ products' = IF lastEvent'.results.kind = "array"
                           THEN lastEvent'.results.items ELSE products
            /\ Len(NewEntries) >= ResultEntries(lastEvent') + LineEntries(lastEvent')]_vars

\* a payload that did not parse was delivered to the open channel of a job
\* whose status and ResultSet an earlier message had set
C14_Witness ==
    /\ lastEvent = Malformed
    /\ received = 2
    /\ jobStatus = "running"
    /\ products = <<"p1">>
    /\ SocketsIn({"OPEN"}) # {}

\* C15: a rejected prompt, a response of the submission, a closed connection
\* and a payload that does not parse each append an entry to the log
\* sequence.
C15_ErrorsAreLogged ==
    [][/\ ToastStep => Len(logs') > Len(logs)
       /\ ResumeStep => Len(logs') > Len(logs)
       /\ \A i \in 1..Len(sockets) : (ClosedStep(i) /\ mounted) => Len(logs') > Len(logs)
       /\ MalformedStep => Len(logs') > Len(logs)]_vars

\* a step in which a WebSocket is constructed
SocketStep == Len(sockets') > Len(sockets)

\* C16: a channel is created only in the run of the effect for a changed
\* identifier, and for that identifier; a closed channel of the live
\* identifier is never followed by another one.
C16_NoReconnect ==
    [][SocketStep =>
        /\ effectJobId # currentJobId
        /\ effectJobId' = currentJobId
        /\ Len(sockets') = Len(sockets) + 1
        /\ sockets'[Len(sockets')].job = currentJobId]_vars

\* the channel of the job has closed, a second search returned the same
\* identifier, and there is still the one closed channel
C16_Witness ==
    /\ mounted
    /\ searchNo = 2
    /\ inflight = NoRequest
    /\ jobStatus = "pending"
    /\ effectJobId = currentJobId
    /\ Len(sockets) = 1
    /\ sockets[1].readyState = "CLOSED"
    /\ sockets[1].job = currentJobId

\* C17: the close of a socket that close() was called on while it was
\* CONNECTING leaves the log, the connected flag, the status and the
\* products as they were.
C17_UnopenedCloseIsNoop ==
    [][\A i \in 1..Len(sockets) :
        (ClosedStep(i) /\ sockets[i].mustFail) =>
            UNCHANGED <<logs, isConnected, jobStatus, products>>]_vars

\* the entries a message with this status appends by the status itself
StatusEntries(m) == IF m.status \in {"running", "completed", "failed"} THEN 1 ELSE 0

\* C18: a message whose status is a step back from the current one appends
\* an entry beyond those for its results, its logs and its status.
C18_RegressionLogged ==
    [][(/\ ObjectStep
        /\ lastEvent'.status # ""
        /\ Regresses(jobStatus, lastEvent'.status)) =>
            Len(NewEntries) > ResultEntries(lastEvent') + LineEntries(lastEvent')
                              + StatusEntries(lastEvent')]_vars

\* C19: an object with no status, no list of results and no list of logs
\* leaves the status, the products and the log as they were.
C19_NoKeyNoChange ==
    [][(/\ ObjectStep
        /\ lastEvent'.status = ""
        /\ lastEvent'.results.kind # "array"
        /\ lastEvent'.logs.kind # "array") =>
            UNCHANGED <<jobStatus, products, logs>>]_vars

\* a message whose results and logs are not lists came after one that set the
\* status and the products, and both are still there
C19_Witness ==
    /\ received = 2
    /\ lastEvent.parse = "object"
    /\ lastEvent.status = ""
    /\ lastEvent.results = NotArray
    /\ lastEvent.logs = NotArray
    /\ jobStatus = "running"
    /\ products = <<"p1">>

\* C20: the job status is idle or one of the four values of the declared
\* union.
C20_StatusDeclared ==
    jobStatus \in {"idle", "pending", "running", "completed", "failed"}

\* s is t with some elements left out
RECURSIVE IsSubsequence(_, _)
IsSubsequence(s, t) ==
    IF s = <<>> THEN TRUE
    ELSE IF t = <<>> THEN FALSE
    ELSE IF Head(s) = Head(t) THEN IsSubsequence(Tail(s), Tail(t))
    ELSE IsSubsequence(s, Tail(t))

Elements(s) == {s[i] : i \in 1..Len(s)}

\* the product meets every predicate of the filter set
Satisfies(id, f) ==
    PassesMin(id, f) /\ PassesMax(id, f) /\ PassesCategory(id, f) /\ PassesSite(id, f)

\* the filter set with the given keys only
Only(f, keys) == [k \in DOMAIN f \cap keys |-> f[k]]

\* C21: the filtered list is a sub-sequence of products, each of its
\* elements meets every predicate of filters, and a product is left out only
\* if it fails one of them.
C21_FilterConjunction ==
    LET out == filtered(products, filters) IN
    /\ IsSubsequence(out, products)
    /\ \A i \in 1..Len(out) : Satisfies(out[i], filters)
    /\ \A i \in 1..Len(products) :
           products[i] \notin Elements(out) => ~Satisfies(products[i], filters)

\* two bounds and a category are set; of two products the first is left out
C21_Witness ==
    /\ Get(filters, "min_price").kind = "number"
    /\ Get(filters, "max_price").kind = "number"
    /\ TruthyValue(Get(filters, "category"))
    /\ Len(products) = 2
    /\ filtered(products, filters) = <<products[2]>>

\* site lists of the names of the Website select
SiteLists ==
    {<<>>} \cup {<<a>> : a \in {myntra, meesho, nykaa}}
           \cup {<<a, b>> : a, b \in {myntra, meesho, nykaa}}

\* the products that pass with site set to the value
WithSite(value) == filtered(products, Spread(filters, "site", value))

\* C22: a site list passes the products that pass one of its names given as
\* a single string, in the order of products, and a list of one name passes
\* the same products as the name.
C22_SiteListIsUnion ==
    \A S \in SiteLists :
        LET single == [i \in 1..Len(S) |-> WithSite(Str(S[i]))]
            union == UNION {Elements(single[i]) : i \in 1..Len(S)}
        IN  /\ WithSite(Arr(S)) = SelectSeq(products, LAMBDA id : id \in union)
            /\ Len(S) = 1 => WithSite(Arr(S)) = single[1]

\* under an upper price bound a list of two names passes two products, each
\* name one of them, and a list of another name passes none
C22_Witness ==
    /\ Get(filters, "max_price") = Num(200)
    /\ Len(WithSite(Arr(<<myntra, nykaa>>))) = 2
    /\ WithSite(Arr(<<meesho>>)) = <<>>
    /\ Len(WithSite(Str(myntra))) = 1
    /\ Len(WithSite(Str(nykaa))) = 1
    /\ WithSite(Arr(<<nykaa>>)) = WithSite(Str(nykaa))

\* the price of a product as a number
PriceOf(id) ==
    IF Catalog[id].price.kind = "number" THEN Catalog[id].price.n
    ELSE Number(Catalog[id].price.s)

\* the bound is not there: the key is absent or its value is undefined
NoBound(key) == key \notin DOMAIN filters \/ filters[key] = Undef

\* C23: with the price bounds of filters alone, a product passes exactly when
\* its price is at least min_price and at most max_price, each bound counted
\* only if it is there.
C23_PriceBoundsInclusive ==
    LET out == filtered(products, Only(filters, {"min_price", "max_price"})) IN
    \A i \in 1..Len(products) :
        products[i] \in Elements(out) <=>
            /\ NoBound("min_price") \/ filters["min_price"].n <= PriceOf(products[i])
            /\ NoBound("max_price") \/ PriceOf(products[i]) <= filters["max_price"].n

\* min_price is 100: the product priced 100 passes and the one priced 50
\* does not
C23_Witness ==
    /\ Get(filters, "min_price") = Num(100)
    /\ "p4" \in Elements(filtered(products, filters))
    /\ "p1" \in Elements(products)
    /\ "p1" \notin Elements(filtered(products, filters))

\* text occurs in value, which is a string, with the case of letters ignored
OccursIn(text, value) ==
    /\ value.kind = "string"
    /\ \E at \in 0..(Len(value.s) - Len(text)) :
           \A k \in 1..Len(text) : Lower(value.s[at + k]) = Lower(text[k])

\* C24: with the category of filters alone, a product passes exactly when
\* the text occurs in its category or in its title; one without a category
\* passes exactly when the text occurs in its title.
C24_CategoryOrTitle ==
    LET out == filtered(products, Only(filters, {"category"})) IN
    TruthyValue(Get(filters, "category")) =>
        \A i \in 1..Len(products) :
            LET P == Catalog[products[i]]
                c == filters["category"].s
            IN  /\ products[i] \in Elements(out) <=>
                       (OccursIn(c, P.category) \/ OccursIn(c, P.title))
                /\ Nullish(P.category) =>
                       (products[i] \in Elements(out) <=> OccursIn(c, P.title))

\* the category is "sAR": of two products without a category the one titled
\* "Saree" passes and the one titled "kurta" does not
C24_Witness ==
    /\ Get(filters, "category") = Str(<<"s", "A", "R">>)
    /\ DOMAIN filters = {"category"}
    /\ Elements(products) = {"p2", "p4"}
    /\ filtered(products, filters) = <<"p2">>

\* the value of the sort field of a product
SortValue(id) == Catalog[id][sortField]

\* the list the table shows, on the given engine
Shown(engine) ==
    filteredAndSortedProducts(products, filters, sortField, sortDirection, engine)

\* C25: in the sorted list no product whose sort field is null or absent
\* comes before one whose sort field is defined, in either direction.
C25_NullsLast ==
    sortField # "" =>
        \A e \in Engines :
            \A i, j \in 1..Len(Shown(e)) :
                (i < j /\ Nullish(SortValue(Shown(e)[i]))) =>
                    Nullish(SortValue(Shown(e)[j]))

\* sorted by rating, descending: the list that began with a product without
\* a rating ends with the two products without one
C25_Witness ==
    /\ sortField = "rating"
    /\ sortDirection = "desc"
    /\ products = <<"p2", "p1", "p4", "p3">>
    /\ \A e \in Engines :
           /\ Elements(SubSeq(Shown(e), 1, 2)) = {"p1", "p3"}
           /\ Elements(SubSeq(Shown(e), 3, 4)) = {"p2", "p4"}

\* the products of a list whose sort field is defined
Defined(list) == SelectSeq(list, LAMBDA id : ~Nullish(SortValue(id)))

\* the list sorted ascending, and that list sorted descending
Ascending(e) == sort(filtered(products, filters), sortField, "asc", e)
Descending(e) == sort(Ascending(e), sortField, "desc", e)

\* C26: the descending comparator is the negation of the ascending one for
\* every pair, and the ascending list sorted descending is the reverse of the
\* ascending list over the products whose sort field is defined.
C26_DescNegatesAsc ==
    sortField # "" =>
        /\ \A a, b \in Elements(products) :
               comparator(a, b, sortField, "desc")
                   = 0 - comparator(a, b, sortField, "asc")
        /\ \A e \in Engines :
               Defined(Descending(e)) = Reverse(Defined(Ascending(e)))

\* no two products with a defined sort field compare as equal
NoTies ==
    \A a, b \in Elements(Defined(products)) :
        a # b => comparator(a, b, sortField, "asc") # 0

\* C26 as amended: the negation holds for the pairs whose sort fields are
\* both defined, and the reversal holds when no two defined values compare
\* as equal.
C26_DescNegatesAscDefined ==
    sortField # "" =>
        /\ \A a, b \in Elements(Defined(products)) :
               comparator(a, b, sortField, "desc")
                   = 0 - comparator(a, b, sortField, "asc")
        /\ NoTies =>
               \A e \in Engines :
                   Defined(Descending(e)) = Reverse(Defined(Ascending(e)))

\* sorted by rating, descending, a list with two ratings and two products
\* without one: the rated products are in the reverse of their ascending order
C26_Witness ==
    /\ sortField = "rating"
    /\ sortDirection = "desc"
    /\ products = <<"p2", "p1", "p4", "p5">>
    /\ NoTies
    /\ \A e \in Engines :
           /\ Defined(Ascending(e)) = <<"p1", "p5">>
           /\ Defined(Shown(e)) = <<"p5", "p1">>

\* the index of a product in a list without repetition
IndexIn(list, id) == CHOOSE i \in 1..Len(list) : list[i] = id

\* C27: two products whose sort-field values compare as equal are in the
\* sorted list in the order they have in the filtered list.
C27_SortStable ==
    sortField # "" =>
        \A e \in Engines :
            LET in == filtered(products, filters) IN
            \A i, j \in 1..Len(in) :
                (i < j /\ comparator(in[i], in[j], sortField, sortDirection) = 0
                       /\ comparator(in[j], in[i], sortField, sortDirection) = 0) =>
                    IndexIn(Shown(e), in[i]) < IndexIn(Shown(e), in[j])

\* the pages 1..last of a list, one after the other
RECURSIVE PagesUpTo(_, _, _)
PagesUpTo(items, size, last) ==
    IF last = 0 THEN <<>>
    ELSE PagesUpTo(items, size, last - 1) \o paginatedProducts(items, size, last)

\* C28: the pages 1..totalPages of the shown list, in order, are the list,
\* and every page before the last holds exactly itemsPerPage items.
C28_PagesPartition ==
    \A e \in Engines :
        LET items == Shown(e)
            total == totalPages(Len(items), itemsPerPage)
        IN  /\ PagesUpTo(items, itemsPerPage, total) = items
            /\ \A i \in 1..(total - 1) :
                   Len(paginatedProducts(items, itemsPerPage, i)) = itemsPerPage

\* thirteen products at six a page: the third page holds the last one
C28_Witness ==
    /\ itemsPerPage = 6
    /\ currentPage = 3
    /\ \A e \in Engines :
           /\ Len(Shown(e)) = 13
           /\ totalPages(13, itemsPerPage) = 3
           /\ paginatedProducts(Shown(e), itemsPerPage, currentPage)
                  = <<Shown(e)[13]>>

\* the number of page indices beyond the last page that are looked at
Beyond == 2

\* C29: a page index beyond the last page gives the empty page.
C29_BeyondLastIsEmpty ==
    \A e \in Engines :
        LET items == Shown(e)
            total == totalPages(Len(items), itemsPerPage)
        IN  \A page \in ({currentPage} \cup 1..(total + Beyond)) :
                page > total =>
                    paginatedProducts(items, itemsPerPage, page) = <<>>

\* the table is on a page beyond the last one of a list that has items
C29_Witness ==
    /\ TableShown
    /\ \A e \in Engines :
           /\ Shown(e) # <<>>
           /\ currentPage > totalPages(Len(Shown(e)), itemsPerPage)
           /\ paginatedProducts(Shown(e), itemsPerPage, currentPage) = <<>>

\* C30: a step that changes the filters leaves the page index at 1, and a
\* step that changes the sort field or the sort direction leaves the page
\* index as it was.
C30_FilterResetsPage ==
    [][/\ filters' # filters => currentPage' = 1
       /\ (sortField' # sortField \/ sortDirection' # sortDirection) =>
              currentPage' = currentPage]_vars

\* a filter is set and the table is on page 2, sorted by title descending:
\* the page was reached after the filter was set
C30_Witness ==
    /\ Get(filters, "min_price") = Num(100)
    /\ itemsPerPage = 6
    /\ currentPage = 2
    /\ sortField = "title"
    /\ sortDirection = "desc"

\* C31: a filter change, a sort change, a page change or a page-size change
\* leaves the products, the logs, the status and the job identifier as they
\* were.
C31_QueryOnlyReads ==
    [][UNCHANGED <<products, logs, jobStatus, currentJobId>>]_vars

\* thirteen products in the order they arrived, while the table shows the
\* second page of a filtered list sorted by title, descending
C31_Witness ==
    /\ products = SubSeq(AllProducts, 1, 13)
    /\ Get(filters, "min_price") = Num(100)
    /\ sortField = "title"
    /\ sortDirection = "desc"
    /\ itemsPerPage = 6
    /\ currentPage = 2
    /\ \A e \in Engines :
           /\ Len(Shown(e)) = 11
           /\ Shown(e)[1] = "p13"
           /\ Len(paginatedProducts(Shown(e), itemsPerPage, currentPage)) = 5

\* the channel window.searchWebSocket holds is open
CurrentChannelOpen ==
    searchWebSocket # 0 /\ sockets[searchWebSocket].readyState = "OPEN"

\* C32: once the effect has run for the current identifier, isConnected is
\* true exactly when the channel of that identifier is open.
C32_ConnectedIffOpen ==
    (mounted /\ effectJobId = currentJobId) =>
        (isConnected <=> CurrentChannelOpen)

\* the submission of the search started last has failed
SubmitFailed ==
    \E i \in 1..Len(logs) :
        logs[i].by = searchNo /\ logs[i].text[1] = "Search failed: "

\* C33: after a failed submission the status stays failed as long as no
\* new search is started.
C33_FailedSubmissionStays ==
    [][(SubmitFailed /\ jobStatus = "failed" /\ ~SearchStartStep) =>
           jobStatus' = "failed"]_vars

\* the submission of the search started last was answered with an identifier
Created ==
    /\ mounted
    /\ inflight = NoRequest
    /\ \E i \in 1..Len(logs) :
           logs[i].by = searchNo /\ logs[i].text[1] = "Search job created: "

\* a channel for the current identifier is open, or a channel made for the
\* search started last has closed
ChannelSettled ==
    \E i \in 1..Len(sockets) :
        /\ sockets[i].job = currentJobId
        /\ \/ sockets[i].readyState = "OPEN"
           \/ sockets[i].by = searchNo /\ sockets[i].readyState = "CLOSED"

\* C34: after a successful submission, as long as App stays mounted and no
\* further search is started, a channel for the returned identifier
\* eventually is open or reports that it has closed.
C34_ChannelAfterSubmission ==
    \A n \in 1..JobSearches :
        [](Created /\ searchNo = n =>
               <>(ChannelSettled \/ ~mounted \/ searchNo > n))

\* C35: while App is mounted, isLoading is true exactly while a submission
\* request is in flight, so it is false once the response was handled,
\* whether the submission succeeded or failed.
C35_LoadingIffInFlight ==
    mounted => (isLoading <=> inflight # NoRequest)

\* the second submission failed and its response was handled
C35_Witness ==
    /\ mounted
    /\ searchNo = 2
    /\ SubmitFailed
    /\ inflight = NoRequest
    /\ ~isLoading

\* C36: a search is started only while no submission is in flight; the job
\* identifier changes only when the response of a successful submission is
\* handled, and that response belongs to the search started last and leaves
\* the identifier it returned as the live one.
C36_OneSubmissionInFlight ==
    [][/\ SearchStartStep => inflight = NoRequest
       /\ CreatedStep => /\ inflight.no = searchNo
                         /\ currentJobId' = Appended.text[2]
       /\ currentJobId' # currentJobId => CreatedStep]_vars

\* two searches were answered, the first with J1 and the second with J2:
\* a channel of J1 exists and the live identifier is J2
C36_Witness ==
    /\ Created
    /\ searchNo = 2
    /\ currentJobId = "J2"
    /\ \E i \in 1..Len(sockets) : sockets[i].job = "J1" /\ sockets[i].by = 1

\* C37: while the table shows a non-empty filtered list, the page index is
\* one of 1..totalPages and the page shown is not empty.
C37_PageInRange ==
    (TableShown /\ filteredLength > 0) =>
        /\ currentPage \in 1..totalPages(filteredLength, itemsPerPage)
        /\ \A e \in Engines :
               paginatedProducts(Shown(e), itemsPerPage, currentPage) # <<>>

\* the other direction
Flipped(direction) == IF direction = "asc" THEN "desc" ELSE "asc"

\* C38: a selection of the active sort field keeps the field and flips the
\* direction, so that a second one restores it; a selection of another field
\* makes it the active field with direction asc.
C38_SortToggle ==
    [][<<sortField, sortDirection>>' # <<sortField, sortDirection>> =>
           /\ sortDirection \in {"asc", "desc"}
           /\ IF sortField' = sortField
              THEN /\ sortDirection' = Flipped(sortDirection)
                   /\ Flipped(sortDirection') = sortDirection
              ELSE sortDirection' = "asc"]_vars

\* the table is sorted by title, descending: title was chosen, which set
\* the direction to asc, and chosen again
C38_Witness ==
    /\ sortField = "title"
    /\ sortDirection = "desc"
    /\ products = <<"p1", "p2", "p3", "p4">>

\* a toggle of item turns the selection before into the selection after:
\* item changes sides and nothing else does
Toggles(before, after, item) ==
    /\ item \in Elements(after) <=> item \notin Elements(before)
    /\ Elements(after) \ {item} = Elements(before) \ {item}

\* the size or material filter holds undefined for no selected value, the
\* value for one and the list for two or more; a toggle changes the side of
\* the toggled value only, and a second toggle restores the selection
ToggleRestores(key, items) ==
    LET value == Get(formFilters, key)
        selected == selectedOf(value)
    IN  /\ Len(selected) = 0 => value = Undef
        /\ Len(selected) = 1 => value = Str(selected[1])
        /\ Len(selected) >= 2 => value = Arr(selected)
        /\ \A item \in items :
               LET once == ToggleValue(value, item)
                   twice == ToggleValue(once, item)
               IN  /\ Toggles(selected, selectedOf(once), item)
                   /\ Elements(selectedOf(twice)) = Elements(selected)

\* C39: for sizes, materials and sites, a toggle adds the value when it is
\* not selected and removes it when it is, and a second toggle restores the
\* selection; the size and material filters are absent, a string or a list
\* of two or more.
C39_ToggleTwiceRestores ==
    /\ ToggleRestores("size", Sizes)
    /\ ToggleRestores("material", Materials)
    /\ \A s \in ToggleSites :
           /\ Toggles(selectedSites, ToggleIn(selectedSites, s), s)
           /\ Elements(ToggleIn(ToggleIn(selectedSites, s), s))
                  = Elements(selectedSites)

\* two sizes as a list, one material as a string, one site toggled off
C39_Witness ==
    /\ Get(formFilters, "size") = Arr(<< <<"M">>, <<"S">> >>)
    /\ Get(formFilters, "material") = Str(<<"s", "i", "l", "k">>)
    /\ selectedSites = <<"meesho">>

====
